---- MODULE Spec2Model ----
(***************************************************************************)
(* A model of krkr-xp3: the XP3 archive writer (xp3writer.py), the reader  *)
(* (xp3reader.py, structs/file.py) and the chunk codecs (structs/).        *)
(*                                                                         *)
(* Bytes are integers 0..255 and byte strings are sequences of them.       *)
(* 32-bit words (Adler-32 values, master keys) are kept as their four      *)
(* little-endian bytes, so that no arithmetic leaves the 32 bits.          *)
(* A Python exception is the name of its class in an "err" field; "none"   *)
(* means the call returned.                                                *)
(***************************************************************************)
EXTENDS Integers, Sequences, FiniteSets, TLC

VARIABLES
    buffer,        \* XP3Writer.buffer: the bytes of the sink
    pos,           \* the sink's stream position
    closed,        \* the sink was closed (XP3Writer.__exit__)
    sink,          \* "BytesIO" (has getvalue) or "file" (a file object, no getvalue)
    file_entries,  \* XP3Writer.file_entries
    _filenames,    \* XP3Writer._filenames
    packed_up,     \* XP3Writer.packed_up
    use_numpy,     \* numpy is importable and use_numpy was passed as True
    result,        \* the outcome of the last call on the writer
    added,         \* history: the add calls made with a new path, in order
    reader,        \* the XP3Reader (its buffer and file index) and its last read
    call           \* the last call of a codec function made on its own

wvars == <<buffer, pos, closed, sink, file_entries, _filenames, packed_up,
           use_numpy, result, added>>
vars == <<buffer, pos, closed, sink, file_entries, _filenames, packed_up,
          use_numpy, result, added, reader, call>>

----------------------------------------------------------------------------
(* Bounds of the model *)

\* the longest content / buffer drawn as an input
MaxLen == 3
\* the most add calls made on one writer
MaxAdds == 2

----------------------------------------------------------------------------
(* Bytes and words *)

Byte == 0..255

\* LET v == value IN F(v), the value being computed once
Let(v, F(_)) == F(v)

RECURSIVE BitXor(_, _)
\* Python's ^ on two non-negative integers
BitXor(a, b) ==
    IF a = 0 THEN b
    ELSE IF b = 0 THEN a
    ELSE ((a + b) % 2) + 2 * BitXor(a \div 2, b \div 2)

\* ^ on two 32-bit words held as four little-endian bytes
Xor32(x, y) == [i \in 1..4 |-> BitXor(x[i], y[i])]

\* the little-endian bytes of n in a field of width bytes, for the n the model
\* reaches (0 <= n < 2^31)
Pack(n, width) == [i \in 1..width |-> IF i <= 4 THEN (n \div (256 ^ (i - 1))) % 256 ELSE 0]

\* struct formats '<Q', '<I', '<H'
PackQ(n) == Pack(n, 8)
PackI(n) == Pack(n, 4)
PackH(n) == Pack(n, 2)

\* the largest integer the model tells apart: an unpacked value at or above it
\* is read as Huge, which is beyond every length and offset of the model
Huge == 1073741824

RECURSIVE Unpack(_)
\* struct.unpack of the little-endian bytes b as one unsigned integer
Unpack(b) ==
    IF b = <<>> THEN 0
    ELSE Let(Unpack(Tail(b)), LAMBDA r :
         IF r >= Huge \div 256 THEN Huge ELSE Head(b) + 256 * r)

\* bytes[from..to], clipped like a Python slice
Slice(s, from, to) ==
    IF to < from \/ from > Len(s) THEN <<>>
    ELSE SubSeq(s, from, IF to > Len(s) THEN Len(s) ELSE to)

RECURSIVE ConcatRange(_, _, _)
\* seqs[lo] \o ... \o seqs[hi], by halving the range
ConcatRange(seqs, lo, hi) ==
    IF lo > hi THEN <<>>
    ELSE IF lo = hi THEN seqs[lo]
    ELSE Let((lo + hi) \div 2, LAMBDA mid :
         ConcatRange(seqs, lo, mid) \o ConcatRange(seqs, mid + 1, hi))

\* b''.join(seqs)
Concat(seqs) == ConcatRange(seqs, 1, Len(seqs))

RECURSIVE SumRange(_, _, _)
\* s[lo] + ... + s[hi], by halving the range
SumRange(s, lo, hi) ==
    IF lo > hi THEN 0
    ELSE IF lo = hi THEN s[lo]
    ELSE Let((lo + hi) \div 2, LAMBDA mid : SumRange(s, lo, mid) + SumRange(s, mid + 1, hi))

----------------------------------------------------------------------------
(* zlib: Adler-32 is computed as zlib does; the deflate stream is modelled *)
(* by a run-length code inside zlib's framing (2-byte header, big-endian   *)
(* Adler-32 trailer): lossless, shorter than the input for repetitive      *)
(* input and longer for short or varied input, and rejecting streams with  *)
(* a wrong header, a malformed body or a wrong trailer.                    *)

\* zlib.adler32(data) = (b << 16) | a, as four little-endian bytes, where
\* a = 1 + d1 + ... + dn and b = n + n*d1 + (n-1)*d2 + ... + dn, modulo 65521
adler32(data) ==
    LET n == Len(data)
        a == (1 + SumRange(data, 1, n)) % 65521
        b == (n + SumRange([i \in 1..n |-> (n - i + 1) * data[i]], 1, n)) % 65521
    IN  <<a % 256, a \div 256, b % 256, b \div 256>>

\* the two header bytes of a zlib stream written at level 9 (0x78 0xDA)
ZlibHeader == <<120, 218>>

\* the runs of left followed by the runs of right, as (length, byte) pairs: a
\* run that ends left and goes on in right is one run, of at most 255 bytes
JoinRuns(left, right) ==
    IF left = <<>> \/ right = <<>> \/ left[Len(left)] # right[2]
    THEN left \o right
    ELSE LET total == left[Len(left) - 1] + right[1]
             joined == IF total <= 255 THEN <<total, right[2]>>
                       ELSE <<255, right[2], total - 255, right[2]>>
         IN  SubSeq(left, 1, Len(left) - 2) \o joined \o SubSeq(right, 3, Len(right))

RECURSIVE Runs(_, _, _)
\* the runs of data[lo..hi], by halving the range
Runs(data, lo, hi) ==
    IF lo > hi THEN <<>>
    ELSE IF lo = hi THEN <<1, data[lo]>>
    ELSE Let((lo + hi) \div 2, LAMBDA mid :
         JoinRuns(Runs(data, lo, mid), Runs(data, mid + 1, hi)))

DeflateBody(data) == Runs(data, 1, Len(data))

\* zlib.compress(data, level=9)
zlib_compress(data) ==
    Let(adler32(data), LAMBDA a :
    ZlibHeader \o DeflateBody(data) \o <<a[4], a[3], a[2], a[1]>>)

\* the bytes a body decodes to, or <<-1>> when it is malformed
InflateBody(body) ==
    IF Len(body) % 2 # 0 \/ \E k \in 1..(Len(body) \div 2) : body[2 * k - 1] = 0
    THEN <<-1>>
    ELSE Concat([k \in 1..(Len(body) \div 2) |->
                    [i \in 1..body[2 * k - 1] |-> body[2 * k]]])

\* zlib.decompress(data): err is "zlib.error" for anything but a valid stream
zlib_decompress(data) ==
    IF Len(data) < 6 \/ SubSeq(data, 1, 2) # ZlibHeader
    THEN [err |-> "zlib.error", value |-> <<>>]
    ELSE Let(InflateBody(SubSeq(data, 3, Len(data) - 4)), LAMBDA out :
         LET t == SubSeq(data, Len(data) - 3, Len(data))
         IN  IF out = <<-1>> \/ <<t[4], t[3], t[2], t[1]>> # adler32(out)
             THEN [err |-> "zlib.error", value |-> <<>>]
             ELSE [err |-> "none", value |-> out])

----------------------------------------------------------------------------
(* Encryption profiles and the XOR operation *)

\* Python's None, as an encryption_type
None == "<None>"

\* master key (little-endian bytes), secondary key, XOR the first byte, chunk name
encryption_parameters ==
    [none            |-> [master_key |-> <<0, 0, 0, 0>>,       secondary_key |-> 0,
                          xor_the_first_byte |-> FALSE, name |-> <<101, 108, 105, 70>>],
     neko_vol1       |-> [master_key |-> <<156, 226, 72, 21>>, secondary_key |-> 215,
                          xor_the_first_byte |-> FALSE, name |-> <<101, 108, 105, 70>>],
     neko_vol1_steam |-> [master_key |-> <<135, 139, 82, 68>>, secondary_key |-> 35,
                          xor_the_first_byte |-> FALSE, name |-> <<101, 108, 105, 70>>],
     neko_vol0       |-> [master_key |-> <<156, 226, 72, 21>>, secondary_key |-> 215,
                          xor_the_first_byte |-> TRUE,  name |-> <<110, 101, 107, 111>>],
     neko_vol0_steam |-> [master_key |-> <<135, 139, 82, 68>>, secondary_key |-> 35,
                          xor_the_first_byte |-> TRUE,  name |-> <<110, 101, 107, 111>>]]

Profiles == DOMAIN encryption_parameters

\* (adler_key >> 24 ^ adler_key >> 16 ^ adler_key >> 8 ^ adler_key) & 0xFF
FoldKey(adler_key) ==
    BitXor(BitXor(BitXor(adler_key[4], adler_key[3]), adler_key[2]), adler_key[1])

\* the byte-at-a-time branch without the secondary key: a folded key of 0 is used
xor_python_no_secondary(data, adler, encryption_type) ==
    IF encryption_type \notin Profiles THEN [err |-> "KeyError", value |-> data]
    ELSE
    LET p == encryption_parameters[encryption_type]
        adler_key == Xor32(adler, p.master_key)
        xor_key == FoldKey(adler_key)
        first_byte_key == IF adler_key[1] = 0 THEN p.master_key[1] ELSE adler_key[1]
    IN  IF p.xor_the_first_byte /\ data = <<>>
        THEN [err |-> "IndexError", value |-> data]
        ELSE [err |-> "none",
              value |-> [i \in 1..Len(data) |->
                  BitXor(IF p.xor_the_first_byte /\ i = 1
                         THEN BitXor(data[i], first_byte_key) ELSE data[i],
                         xor_key)]]

\* the byte-at-a-time branch of XP3File.xor on the bytes of the buffer
xor_python(data, adler, encryption_type) ==
    IF encryption_type \notin Profiles THEN [err |-> "KeyError", value |-> data]
    ELSE
    LET p == encryption_parameters[encryption_type]
        adler_key == Xor32(adler, p.master_key)
        folded == FoldKey(adler_key)
        xor_key == IF folded = 0 THEN p.secondary_key ELSE folded
        first_byte_key == IF adler_key[1] = 0 THEN p.master_key[1] ELSE adler_key[1]
    IN  IF p.xor_the_first_byte /\ data = <<>>
        THEN [err |-> "IndexError", value |-> data]    \* data[0] of an empty array
        ELSE [err |-> "none",
              value |-> [i \in 1..Len(data) |->
                  BitXor(IF p.xor_the_first_byte /\ i = 1
                         THEN BitXor(data[i], first_byte_key) ELSE data[i],
                         xor_key)]]

\* the numpy branch of XP3File.xor: the first byte is split off by slicing,
\* which gives an empty array for an empty buffer
xor_numpy(data, adler, encryption_type) ==
    IF encryption_type \notin Profiles THEN [err |-> "KeyError", value |-> data]
    ELSE
    LET p == encryption_parameters[encryption_type]
        adler_key == Xor32(adler, p.master_key)
        folded == FoldKey(adler_key)
        xor_key == IF folded = 0 THEN p.secondary_key ELSE folded
        first_byte_key == IF adler_key[1] = 0 THEN p.master_key[1] ELSE adler_key[1]
        first == [i \in 1..Len(Slice(data, 1, 1)) |-> BitXor(data[i], first_byte_key)]
        rest == Slice(data, 2, Len(data))
        split == IF p.xor_the_first_byte THEN first \o rest ELSE data
    IN  [err |-> "none", value |-> [i \in 1..Len(split) |-> BitXor(split[i], xor_key)]]

\* XP3File.xor(output_buffer, adler32, encryption_type, use_numpy): the bytes
\* left in output_buffer; numpy stands for "numpy and use_numpy"
xor(data, adler, encryption_type, numpy) ==
    IF numpy THEN xor_numpy(data, adler, encryption_type)
    ELSE xor_python(data, adler, encryption_type)

----------------------------------------------------------------------------
(* The chunks of a file entry (structs/file_entry.py)                      *)
(* Paths are sequences of code points (the characters of a Python str), no *)
(* surrogate among them. An absent value (Python None)                     *)
(* of an optional field is the empty sequence, a present one <<value>>.    *)

tag_File == <<70, 105, 108, 101>>
tag_time == <<116, 105, 109, 101>>
tag_adlr == <<97, 100, 108, 114>>
tag_segm == <<115, 101, 103, 109>>
tag_info == <<105, 110, 102, 111>>

\* str.encode('utf-16le'): one 16-bit unit for a code point below 0x10000, a
\* surrogate pair (0xD800.., 0xDC00..) for a code point from 0x10000
utf16le(path) ==
    Concat([i \in 1..Len(path) |->
        IF path[i] < 65536 THEN <<path[i] % 256, path[i] \div 256>>
        ELSE LET high == 55296 + ((path[i] - 65536) \div 1024)
                 low == 56320 + ((path[i] - 65536) % 1024)
             IN  <<high % 256, high \div 256, low % 256, low \div 256>>])

\* str.lower(), on the ASCII letters
lower(path) == [i \in 1..Len(path) |-> IF path[i] \in 65..90 THEN path[i] + 32 ELSE path[i]]

\* hashlib.md5(bytes).hexdigest(): 32 hexadecimal digits that are a function of
\* the bytes (the digest itself is not modelled)
md5_hexdigest(bytes) ==
    [i \in 1..32 |->
        LET d == IF bytes = <<>> THEN 0 ELSE (bytes[((i - 1) % Len(bytes)) + 1] + i) % 16
        IN  IF d < 10 THEN 48 + d ELSE 87 + d]

\* XP3FileEncryption(adler32, file_path, name)
XP3FileEncryption(adler, file_path, name) ==
    [name |-> name, adler32 |-> adler, file_path |-> file_path]

XP3FileEncryption_to_bytes(e) ==
    LET size == 4 + 2 + (Len(e.file_path) * 2) + 2
    IN  e.name \o PackQ(size) \o e.adler32 \o PackH(Len(e.file_path))
        \o utf16le(e.file_path) \o <<0, 0>>

\* XP3FileTime(timestamp)
XP3FileTime(timestamp) == [timestamp |-> timestamp]

XP3FileTime_to_bytes(t) == tag_time \o PackQ(8) \o PackQ(t.timestamp)

\* read_from without the division by 1000
XP3FileTime_read_from_undivided(bytes) ==
    IF Len(bytes) < 16 THEN [err |-> "struct.error", value |-> XP3FileTime(0)]
    ELSE IF Unpack(SubSeq(bytes, 1, 8)) # 8
         THEN [err |-> "AssertionError", value |-> XP3FileTime(0)]
    ELSE [err |-> "none", value |-> XP3FileTime(Unpack(SubSeq(bytes, 9, 16)))]

\* XP3FileTime.read_from on the 16 bytes after the tag
XP3FileTime_read_from(bytes) ==
    IF Len(bytes) < 16 THEN [err |-> "struct.error", value |-> XP3FileTime(0)]
    ELSE IF Unpack(SubSeq(bytes, 1, 8)) # 8
         THEN [err |-> "AssertionError", value |-> XP3FileTime(0)]
    ELSE [err |-> "none", value |-> XP3FileTime(Unpack(SubSeq(bytes, 9, 16)) \div 1000)]

\* XP3FileAdler(adler32), XP3FileAdler.from_data(data)
XP3FileAdler(adler) == [value |-> adler]
XP3FileAdler_from_data(data) == XP3FileAdler(adler32(data))
XP3FileAdler_to_bytes(a) == tag_adlr \o PackQ(4) \o a.value

\* the fields of the namedtuple XP3FileSegments.segment
SegmentFields == {"is_compressed", "offset", "uncompressed_size", "compressed_size"}

\* XP3FileSegments.segment(**kwargs): a namedtuple takes exactly its own field
\* names as keywords, and raises TypeError for any other keyword
segment(kwargs) ==
    IF DOMAIN kwargs = SegmentFields
    THEN [err |-> "none", value |-> <<kwargs>>]
    ELSE [err |-> "TypeError", value |-> <<>>]

\* XP3FileSegments.segment(*values): the fields by position
segment_positional(is_compressed, offset, uncompressed_size, compressed_size) ==
    [is_compressed |-> is_compressed, offset |-> offset,
     uncompressed_size |-> uncompressed_size, compressed_size |-> compressed_size]

\* XP3FileSegments(segments)
XP3FileSegments(segments) == [segments |-> segments]

\* struct '<?xxxQQQ' of a segment, its fields in the namedtuple's order
XP3FileSegments_to_bytes(segm) ==
    tag_segm \o PackQ(Len(segm.segments) * 28)
    \o Concat([i \in 1..Len(segm.segments) |->
         LET s == segm.segments[i]
         IN  <<IF s.is_compressed THEN 1 ELSE 0, 0, 0, 0>> \o PackQ(s.offset)
             \o PackQ(s.uncompressed_size) \o PackQ(s.compressed_size)])

\* bit 0 of the info flag word ("bit 0 = encrypted")
XP3FileIsEncrypted == 1

\* XP3FileInfo(is_encrypted, uncompressed_size, compressed_size, file_path)
XP3FileInfo(is_encrypted, uncompressed_size, compressed_size, file_path) ==
    [is_encrypted |-> is_encrypted, uncompressed_size |-> uncompressed_size,
     compressed_size |-> compressed_size, file_path |-> file_path]

XP3FileInfo_to_bytes(info) ==
    LET size == 4 + 8 + 8 + 2 + (Len(info.file_path) * 2) + 2
        flags == IF info.is_encrypted THEN XP3FileIsEncrypted ELSE 0
    IN  tag_info \o PackQ(size) \o PackI(flags) \o PackQ(info.uncompressed_size)
        \o PackQ(info.compressed_size) \o PackH(Len(info.file_path))
        \o utf16le(info.file_path) \o <<0, 0>>

\* XP3FileEntry(time, adlr, segm, info, encryption): the checksums of the adlr
\* chunk and of the encryption chunk must agree
XP3FileEntry(encryption, time, adlr, segm, info) ==
    IF encryption # <<>> /\ adlr.value # encryption[1].adler32
    THEN [err |-> "AssertionError", value |-> <<>>]
    ELSE [err |-> "none",
          value |-> <<[encryption |-> encryption, time |-> time, adlr |-> adlr,
                       segm |-> segm, info |-> info]>>]

\* XP3FileEntry.is_encrypted: bool(self.encryption)
is_encrypted(entry) == entry.encryption # <<>>

\* XP3FileEntry.file_path
file_path(entry) ==
    IF is_encrypted(entry) THEN entry.encryption[1].file_path ELSE entry.info.file_path

XP3FileEntry_to_bytes(entry) ==
    Let(XP3FileTime_to_bytes(entry.time) \o XP3FileAdler_to_bytes(entry.adlr)
        \o XP3FileSegments_to_bytes(entry.segm) \o XP3FileInfo_to_bytes(entry.info),
        LAMBDA body :
    LET header == tag_File \o PackQ(Len(body))
        encryption == IF is_encrypted(entry)
                      THEN XP3FileEncryption_to_bytes(entry.encryption[1]) ELSE <<>>
    IN  encryption \o header \o body)

----------------------------------------------------------------------------
(* The file index (structs/file_index.py) *)

\* the index flag bytes: 0x80 continuation, 0x01 compressed, 0x00 raw
XP3FileIndexContinue == 128
XP3FileIndexCompressed == 1
Xp3FileIndexUncompressed == 0

\* to_bytes with the sizes compared without the headers
XP3FileIndex_to_bytes_no_overhead(entries) ==
    Let(Concat([i \in 1..Len(entries) |-> XP3FileEntry_to_bytes(entries[i])]),
        LAMBDA uncompressed_index :
    Let(zlib_compress(uncompressed_index), LAMBDA compressed_index :
    LET uncompressed_size == Len(uncompressed_index)
        compressed_size == Len(compressed_index)
    IN  IF compressed_size < uncompressed_size
        THEN <<XP3FileIndexCompressed>> \o PackQ(compressed_size) \o PackQ(uncompressed_size)
             \o compressed_index
        ELSE <<Xp3FileIndexUncompressed>> \o PackQ(uncompressed_size) \o uncompressed_index))

\* XP3FileIndex.to_bytes of an index holding entries
XP3FileIndex_to_bytes(entries) ==
    Let(Concat([i \in 1..Len(entries) |-> XP3FileEntry_to_bytes(entries[i])]),
        LAMBDA uncompressed_index :
    Let(zlib_compress(uncompressed_index), LAMBDA compressed_index :
    LET uncompressed_size == Len(uncompressed_index)
        compressed_size == Len(compressed_index)
    IN  IF compressed_size + 1 + 8 + 8 < uncompressed_size + 1 + 8
        THEN <<XP3FileIndexCompressed>> \o PackQ(compressed_size) \o PackQ(uncompressed_size)
             \o compressed_index
        ELSE <<Xp3FileIndexUncompressed>> \o PackQ(uncompressed_size) \o uncompressed_index))

----------------------------------------------------------------------------
(* The writer (xp3writer.py) *)

\* the 11 bytes b'XP3\r\n \n\x1a\x8b\x67\x01'
XP3Signature == <<88, 80, 51, 13, 10, 32, 10, 26, 139, 103, 1>>

\* buffer.write(data) at position p: the bytes of the buffer afterwards
Write(buf, p, data) ==
    LET end == IF p + Len(data) > Len(buf) THEN p + Len(data) ELSE Len(buf)
    IN  [i \in 1..end |-> IF i > p /\ i <= p + Len(data) THEN data[i - p]
                           ELSE IF i <= Len(buf) THEN buf[i] ELSE 0]

\* XP3Writer._create_file_entry: err, and on return the entry and the bytes to
\* write. The steps raise in the order of the code: the XOR (an unknown profile,
\* data[0] of an empty buffer), then the construction of the segment.
_create_file_entry(internal_filepath, uncompressed_data, offset, encryption_type, timestamp, numpy) ==
    Let(zlib_compress(uncompressed_data), LAMBDA compressed_data :
    Let(XP3FileAdler_from_data(uncompressed_data), LAMBDA adlr :
    LET uncompressed_size == Len(uncompressed_data)
        is_compressed == IF Len(compressed_data) >= uncompressed_size THEN FALSE ELSE TRUE
        compressed_size == IF is_compressed THEN Len(compressed_data) ELSE uncompressed_size
        data == IF is_compressed THEN compressed_data ELSE uncompressed_data
        time == XP3FileTime(timestamp)
        encrypted == encryption_type \notin {"none", None}
        fail(e) == [err |-> e, entry |-> <<>>, data |-> <<>>]
    IN  Let(IF encrypted THEN xor(data, adlr.value, encryption_type, numpy)
            ELSE [err |-> "none", value |-> data], LAMBDA xored :
        IF xored.err # "none" THEN fail(xored.err)
        ELSE
        LET encryption == IF encrypted
                          THEN <<XP3FileEncryption(adlr.value, internal_filepath,
                                     encryption_parameters[encryption_type].name)>>
                          ELSE <<>>
            path_hash == md5_hexdigest(utf16le(lower(internal_filepath)))
            info == XP3FileInfo(encrypted, uncompressed_size, compressed_size,
                                IF ~encrypted THEN internal_filepath ELSE path_hash)
        IN  Let(segment([compressed |-> is_compressed, offset |-> offset,
                         uncompressed_size |-> uncompressed_size,
                         compressed_size |-> compressed_size]), LAMBDA seg :
            IF seg.err # "none" THEN fail(seg.err)
            ELSE
            Let(XP3FileEntry(encryption, time, adlr, XP3FileSegments(seg.value), info),
                LAMBDA file_entry :
            IF file_entry.err # "none" THEN fail(file_entry.err)
            ELSE [err |-> "none", entry |-> file_entry.value, data |-> xored.value])))))

\* what a call on the writer leaves in result
Outcome(op, arg, err, returned, value) ==
    [op |-> op, arg |-> arg, err |-> err, returned |-> returned, value |-> value]

\* the inputs of add: (content, encryption_type, timestamp in milliseconds)
Ones(n) == [i \in 1..n |-> 49]
AddInputs ==
    { <<<<>>, None, 0>>,
      <<Ones(9), None, 1500>>,
      <<<<100, 49>>, "none", 2000>>,
      <<Ones(9), "neko_vol0", 3000>>,
      <<<<>>, "neko_vol0", 0>>,
      <<<<100, 49>>, "neko_vol1", 999>>,
      <<<<49>>, "neko_vol2", 0>> }

\* the paths added: "a", "b", ...
Paths == { <<96 + i>> : i \in 1..MaxAdds }

InSeq(x, s) == \E i \in 1..Len(s) : s[i] = x

\* a packed-up check that never finds the writer packed up
already_packed_up_unchecked == FALSE

\* the first check of add: self.packed_up
already_packed_up == packed_up

\* a duplicate check that finds no path
already_added_unchecked(internal_filepath) == FALSE

\* the duplicate check of add: internal_filepath in self._filenames
already_added(internal_filepath) == InSeq(internal_filepath, _filenames)

\* XP3Writer.add(internal_filepath, file, encryption_type, timestamp)
Add(internal_filepath, file, encryption_type, timestamp) ==
    /\ UNCHANGED <<closed, sink, packed_up, use_numpy, reader, call>>
    /\ IF already_packed_up
       THEN /\ result' = Outcome("add", internal_filepath, "Exception", "raised", <<>>)
            /\ UNCHANGED <<buffer, pos, file_entries, _filenames, added>>
       ELSE IF already_added(internal_filepath)
       THEN /\ result' = Outcome("add", internal_filepath, "FileExistsError", "raised", <<>>)
            /\ UNCHANGED <<buffer, pos, file_entries, _filenames, added>>
       ELSE
       /\ _filenames' = Append(_filenames, internal_filepath)
       /\ added' = Append(added, [path |-> internal_filepath, file |-> file,
                                  encryption_type |-> encryption_type,
                                  timestamp |-> timestamp])
       /\ IF closed       \* buffer.tell() of a closed sink
          THEN /\ result' = Outcome("add", internal_filepath, "ValueError", "raised", <<>>)
               /\ UNCHANGED <<buffer, pos, file_entries>>
          ELSE Let(_create_file_entry(internal_filepath, file, pos,
                                      encryption_type, timestamp, use_numpy), LAMBDA r :
               IF r.err # "none"
               THEN /\ result' = Outcome("add", internal_filepath, r.err, "raised", <<>>)
                    /\ UNCHANGED <<buffer, pos, file_entries>>
               ELSE /\ file_entries' = file_entries \o r.entry
                    /\ buffer' = Write(buffer, pos, r.data)
                    /\ pos' = pos + Len(r.data)
                    /\ result' = Outcome("add", internal_filepath, "none", "None", <<>>))

\* pack_up with the index offset taken after the index was written
pack_up_offset_after_write ==
    IF packed_up /\ sink = "BytesIO"
    THEN [buffer |-> buffer, pos |-> pos, packed_up |-> packed_up,
          out |-> IF closed THEN Outcome("pack_up", <<>>, "ValueError", "raised", <<>>)
                  ELSE Outcome("pack_up", <<>>, "none", "bytes", buffer)]
    ELSE IF closed
    THEN [buffer |-> buffer, pos |-> pos, packed_up |-> packed_up,
          out |-> Outcome("pack_up", <<>>, "ValueError", "raised", <<>>)]
    ELSE
    Let(XP3FileIndex_to_bytes(file_entries), LAMBDA file_index :
    LET file_index_offset == pos + Len(file_index)
    IN  Let(Write(Write(buffer, pos, file_index), Len(XP3Signature), PackQ(file_index_offset)),
            LAMBDA patched :
        [buffer |-> patched, pos |-> Len(XP3Signature) + 8, packed_up |-> TRUE,
         out |-> IF sink = "BytesIO" THEN Outcome("pack_up", <<>>, "none", "bytes", patched)
                 ELSE Outcome("pack_up", <<>>, "none", "None", <<>>)]))

\* XP3Writer.pack_up(), as a step from the writer's state: the new values of
\* buffer, pos and packed_up, and the outcome
pack_up ==
    IF packed_up /\ sink = "BytesIO"
    THEN [buffer |-> buffer, pos |-> pos, packed_up |-> packed_up,
          out |-> IF closed THEN Outcome("pack_up", <<>>, "ValueError", "raised", <<>>)
                  ELSE Outcome("pack_up", <<>>, "none", "bytes", buffer)]
    ELSE IF closed     \* buffer.tell() of a closed sink
    THEN [buffer |-> buffer, pos |-> pos, packed_up |-> packed_up,
          out |-> Outcome("pack_up", <<>>, "ValueError", "raised", <<>>)]
    ELSE
    Let(XP3FileIndex_to_bytes(file_entries), LAMBDA file_index :
    LET file_index_offset == pos
    IN  Let(Write(Write(buffer, pos, file_index), Len(XP3Signature), PackQ(file_index_offset)),
            LAMBDA patched :
        [buffer |-> patched, pos |-> Len(XP3Signature) + 8, packed_up |-> TRUE,
         out |-> IF sink = "BytesIO" THEN Outcome("pack_up", <<>>, "none", "bytes", patched)
                 ELSE Outcome("pack_up", <<>>, "none", "None", <<>>)]))

\* a call of XP3Writer.pack_up()
PackUp ==
    /\ Let(pack_up, LAMBDA r :
           /\ buffer' = r.buffer
           /\ pos' = r.pos
           /\ packed_up' = r.packed_up
           /\ result' = r.out)
    /\ UNCHANGED <<closed, sink, file_entries, _filenames, use_numpy, added, reader, call>>

\* XP3Writer.__exit__: pack up unless packed up, then close the sink
Exit ==
    /\ UNCHANGED <<sink, file_entries, _filenames, use_numpy, added, reader, call>>
    /\ IF ~packed_up
       THEN Let(pack_up, LAMBDA r :
                /\ buffer' = r.buffer
                /\ pos' = r.pos
                /\ packed_up' = r.packed_up
                /\ result' = [r.out EXCEPT !.op = "__exit__"])
       ELSE /\ result' = Outcome("__exit__", <<>>, "none", "None", <<>>)
            /\ UNCHANGED <<buffer, pos, packed_up>>
    /\ closed' = TRUE

----------------------------------------------------------------------------
(* Parsing (structs/file_entry.py, structs/file_index.py)                  *)
(* A cursor c is a stream position: the next byte read is b[c + 1].        *)

\* buffer.read(n) at cursor c; the cursor moves by the length of what is read
Rd(b, c, n) == Slice(b, c + 1, c + n)

\* bytes.decode('utf-16le') of an even number of bytes: err and the code
\* points; a high surrogate and the low surrogate after it are one code point,
\* a surrogate without its partner raises UnicodeDecodeError
decode_utf16le(bytes) ==
    LET n == Len(bytes) \div 2
        unit(i) == bytes[2 * i - 1] + 256 * bytes[2 * i]
        high(i) == unit(i) \in 55296..56319
        low(i) == unit(i) \in 56320..57343
        starts == SelectSeq([i \in 1..n |-> i], LAMBDA i : ~low(i))
    IN  IF \E i \in 1..n : \/ high(i) /\ (i = n \/ ~low(i + 1))
                           \/ low(i) /\ (i = 1 \/ ~high(i - 1))
        THEN [err |-> "UnicodeDecodeError", value |-> <<>>]
        ELSE [err |-> "none",
              value |-> [k \in 1..Len(starts) |->
                  IF high(starts[k])
                  THEN 65536 + (unit(starts[k]) - 55296) * 1024 + (unit(starts[k] + 1) - 56320)
                  ELSE unit(starts[k])]]

\* the result of a read_from: err, the value (when err is "none") and the cursor
Parsed(err, value, c) == [err |-> err, value |-> value, pos |-> c]

\* XP3FileEncryption.read_from(buffer, name), called after the 4-byte name
XP3FileEncryption_read_from(b, c, name) ==
    Let(Rd(b, c, 14), LAMBDA head :
    IF Len(head) < 14 THEN Parsed("struct.error", <<>>, c + Len(head))
    ELSE
    Let(Unpack(SubSeq(head, 13, 14)), LAMBDA file_path_length :
    Let(Rd(b, c + 14, 2 + file_path_length * 2), LAMBDA raw :
    LET start == c + 8
        c2 == c + 14 + Len(raw)
    IN  IF Len(raw) < 2 + file_path_length * 2 THEN Parsed("struct.error", <<>>, c2)
        ELSE
        Let(decode_utf16le(SubSeq(raw, 1, file_path_length * 2)), LAMBDA decoded :
        IF decoded.err # "none" THEN Parsed(decoded.err, <<>>, c2)
        ELSE IF c2 # start + Unpack(SubSeq(head, 1, 8))
        THEN Parsed("AssertionError", <<>>, c2)
        ELSE Parsed("none",
                    XP3FileEncryption(SubSeq(head, 9, 12), decoded.value, name),
                    c2)))))

\* XP3FileTime.read_from(buffer), called after the tag
XP3FileTime_parse(b, c) ==
    Let(Rd(b, c, 16), LAMBDA bytes :
    Let(XP3FileTime_read_from(bytes), LAMBDA r : Parsed(r.err, r.value, c + Len(bytes))))

\* XP3FileAdler.read_from(buffer), called after the tag
XP3FileAdler_read_from(b, c) ==
    Let(Rd(b, c, 12), LAMBDA head :
    IF Len(head) < 12 THEN Parsed("struct.error", <<>>, c + Len(head))
    ELSE IF Unpack(SubSeq(head, 1, 8)) # 4 THEN Parsed("AssertionError", <<>>, c + 12)
    ELSE Parsed("none", XP3FileAdler(SubSeq(head, 9, 12)), c + 12))

RECURSIVE read_segments(_, _, _)
\* the list comprehension of XP3FileSegments.read_from: n segments from cursor c
read_segments(b, c, n) ==
    IF n = 0 THEN Parsed("none", <<>>, c)
    ELSE
    Let(Rd(b, c, 28), LAMBDA s :
    IF Len(s) < 28 THEN Parsed("struct.error", <<>>, c + Len(s))
    ELSE
    Let(read_segments(b, c + 28, n - 1), LAMBDA rest :
    IF rest.err # "none" THEN rest
    ELSE Parsed("none",
                <<segment_positional(s[1] # 0, Unpack(SubSeq(s, 5, 12)),
                      Unpack(SubSeq(s, 13, 20)), Unpack(SubSeq(s, 21, 28)))>>
                \o rest.value,
                rest.pos)))

\* XP3FileSegments.read_from(buffer), called after the tag
XP3FileSegments_read_from(b, c) ==
    Let(Rd(b, c, 8), LAMBDA head :
    IF Len(head) < 8 THEN Parsed("struct.error", <<>>, c + Len(head))
    ELSE
    Let(read_segments(b, c + 8, Unpack(head) \div 28), LAMBDA r :
    IF r.err # "none" THEN r
    ELSE Parsed("none", XP3FileSegments(r.value), r.pos)))

\* XP3FileInfo.read_from(buffer), called after the tag
XP3FileInfo_read_from(b, c) ==
    Let(Rd(b, c, 30), LAMBDA head :
    IF Len(head) < 30 THEN Parsed("struct.error", <<>>, c + Len(head))
    ELSE
    Let(Unpack(SubSeq(head, 29, 30)), LAMBDA file_path_length :
    Let(Rd(b, c + 30, 2 + file_path_length * 2), LAMBDA raw :
    LET start == c + 8
        c2 == c + 30 + Len(raw)
    IN  IF Len(raw) < 2 + file_path_length * 2 THEN Parsed("struct.error", <<>>, c2)
        ELSE
        Let(decode_utf16le(SubSeq(raw, 1, file_path_length * 2)), LAMBDA decoded :
        IF decoded.err # "none" THEN Parsed(decoded.err, <<>>, c2)
        ELSE IF c2 # start + Unpack(SubSeq(head, 1, 8))
        THEN Parsed("AssertionError", <<>>, c2)
        ELSE Parsed("none",
                    \* encrypted is bool(flags & XP3FileIsEncrypted), the mask one bit
                    XP3FileInfo((Unpack(SubSeq(head, 9, 12)) \div XP3FileIsEncrypted) % 2 = 1,
                        Unpack(SubSeq(head, 13, 20)), Unpack(SubSeq(head, 21, 28)),
                        decoded.value),
                    c2)))))

\* the sub-chunk a tag names, read from cursor c; any other tag reads nothing
read_chunk(b, c, name) ==
    IF name = tag_time THEN XP3FileTime_parse(b, c)
    ELSE IF name = tag_adlr THEN XP3FileAdler_read_from(b, c)
    ELSE IF name = tag_segm THEN XP3FileSegments_read_from(b, c)
    ELSE IF name = tag_info THEN XP3FileInfo_read_from(b, c)
    ELSE Parsed("none", <<>>, c)

\* the variable of XP3FileEntry.read_from that a tag assigns
chunk_field(name) ==
    IF name = tag_time THEN "time" ELSE IF name = tag_adlr THEN "adlr"
    ELSE IF name = tag_segm THEN "segm" ELSE IF name = tag_info THEN "info"
    ELSE "other"

RECURSIVE read_chunks(_, _, _, _)
\* the while loop of XP3FileEntry.read_from from cursor c; got holds the chunks
\* read so far, each absent (<<>>) or present (<<chunk>>). A pass that reads
\* nothing at the end of the bytes repeats forever: err "nontermination".
read_chunks(b, c, end, got) ==
    IF ~(c < end) THEN Parsed("none", got, c)
    ELSE
    Let(Rd(b, c, 4), LAMBDA name :
    Let(read_chunk(b, c + Len(name), name), LAMBDA r :
    IF r.err # "none" THEN Parsed(r.err, got, r.pos)
    ELSE IF name = <<>> THEN Parsed("nontermination", got, c)
    ELSE read_chunks(b, r.pos, end,
                     IF chunk_field(name) = "other" THEN got
                     ELSE [got EXCEPT ![chunk_field(name)] = <<r.value>>])))

\* read_record with a record without a segm chunk taken as one without segments
read_record_segm_optional(b, start, encryption) ==
    Let(Rd(b, start, 8), LAMBDA head :
    IF Len(head) < 8 THEN Parsed("struct.error", <<>>, start + Len(head))
    ELSE
    Let(read_chunks(b, start + 8, start + Unpack(head),
                    [time |-> <<>>, adlr |-> <<>>, segm |-> <<>>, info |-> <<>>]),
        LAMBDA r :
    IF r.err # "none" THEN Parsed(r.err, <<>>, r.pos)
    ELSE IF r.value.adlr = <<>> \/ r.value.info = <<>>
    THEN Parsed("AssertionError", <<>>, r.pos)
    ELSE
    Let(XP3FileEntry(encryption,
                     IF r.value.time = <<>> THEN XP3FileTime(0) ELSE r.value.time[1],
                     r.value.adlr[1],
                     IF r.value.segm = <<>> THEN XP3FileSegments(<<>>) ELSE r.value.segm[1],
                     r.value.info[1]),
        LAMBDA e : Parsed(e.err, e.value, r.pos))))

\* the end of XP3FileEntry.read_from: the chunks of the record from the length
\* field at cursor start, then the entry
read_record(b, start, encryption) ==
    Let(Rd(b, start, 8), LAMBDA head :
    IF Len(head) < 8 THEN Parsed("struct.error", <<>>, start + Len(head))
    ELSE
    Let(read_chunks(b, start + 8, start + Unpack(head),
                    [time |-> <<>>, adlr |-> <<>>, segm |-> <<>>, info |-> <<>>]),
        LAMBDA r :
    IF r.err # "none" THEN Parsed(r.err, <<>>, r.pos)
    ELSE IF r.value.adlr = <<>> \/ r.value.segm = <<>> \/ r.value.info = <<>>
    THEN Parsed("AssertionError", <<>>, r.pos)
    ELSE
    Let(XP3FileEntry(encryption,
                     IF r.value.time = <<>> THEN XP3FileTime(0) ELSE r.value.time[1],
                     r.value.adlr[1], r.value.segm[1], r.value.info[1]),
        LAMBDA e : Parsed(e.err, e.value, r.pos))))

\* XP3FileEntry.read_from(buffer) at cursor c
XP3FileEntry_read_from(b, c) ==
    Let(Rd(b, c, 4), LAMBDA name :
    IF name = tag_File THEN read_record(b, c + 4, <<>>)
    ELSE
    Let(XP3FileEncryption_read_from(b, c + Len(name), name), LAMBDA enc :
    IF enc.err # "none" THEN Parsed(enc.err, <<>>, enc.pos)
    ELSE
    Let(Rd(b, enc.pos, 4), LAMBDA next :
    IF next # tag_File THEN Parsed("AssertionError", <<>>, enc.pos + Len(next))
    ELSE read_record(b, enc.pos + 4, <<enc.value>>))))

\* the second half of XP3FileIndex.read_index: the index that the flag at
\* offset o announces
read_index_at(b, o) ==
    Let(Rd(b, o, 1), LAMBDA flag :
    IF flag = <<>> THEN [err |-> "struct.error", index |-> <<>>]
    ELSE IF flag[1] = XP3FileIndexCompressed
    THEN Let(Rd(b, o + 1, 16), LAMBDA sizes :
         IF Len(sizes) < 16 THEN [err |-> "struct.error", index |-> <<>>]
         ELSE
         Let(zlib_decompress(Rd(b, o + 17, Unpack(SubSeq(sizes, 1, 8)))), LAMBDA d :
         IF d.err # "none" THEN [err |-> d.err, index |-> <<>>]
         ELSE IF Len(d.value) # Unpack(SubSeq(sizes, 9, 16))
         THEN [err |-> "AssertionError", index |-> <<>>]
         ELSE [err |-> "none", index |-> d.value]))
    ELSE IF flag[1] = Xp3FileIndexUncompressed
    THEN Let(Rd(b, o + 1, 8), LAMBDA size :
         IF Len(size) < 8 THEN [err |-> "struct.error", index |-> <<>>]
         ELSE [err |-> "none", index |-> Rd(b, o + 9, Unpack(size))])
    ELSE [err |-> "AssertionError", index |-> <<>>])

RECURSIVE follow_redirects(_, _, _)
\* the index at offset o, every continuation record on the way followed (at
\* most fuel of them)
follow_redirects(b, o, fuel) ==
    Let(Rd(b, o, 17), LAMBDA record :
    IF fuel > 0 /\ Len(record) = 17 /\ record[1] = XP3FileIndexContinue
    THEN follow_redirects(b, Unpack(SubSeq(record, 10, 17)), fuel - 1)
    ELSE read_index_at(b, o))

\* read_index with the continuation records followed as long as there are any
read_index_following(b, c) ==
    Let(Rd(b, c, 8), LAMBDA h :
    IF Len(h) < 8 THEN [err |-> "struct.error", index |-> <<>>]
    ELSE IF Unpack(h) = 0 THEN [err |-> "AssertionError", index |-> <<>>]
    ELSE follow_redirects(b, Unpack(h), 4))

\* read_index with the redirect offset taken from the first 8 bytes of the
\* continuation record, the reserved ones
read_index_reserved_first(b, c) ==
    Let(Rd(b, c, 8), LAMBDA h :
    IF Len(h) < 8 THEN [err |-> "struct.error", index |-> <<>>]
    ELSE
    Let(Unpack(h), LAMBDA offset :
    IF offset = 0 THEN [err |-> "AssertionError", index |-> <<>>]
    ELSE
    Let(Rd(b, offset, 1), LAMBDA flag :
    IF flag = <<>> THEN [err |-> "struct.error", index |-> <<>>]
    ELSE IF flag[1] = XP3FileIndexContinue
    THEN Let(Rd(b, offset + 1, 16), LAMBDA redirect :
         IF Len(redirect) < 16 THEN [err |-> "struct.error", index |-> <<>>]
         ELSE read_index_at(b, Unpack(SubSeq(redirect, 1, 8))))
    ELSE read_index_at(b, offset))))

\* XP3FileIndex.read_index(buffer) with the cursor c at the header offset field:
\* err and the bytes of the index
read_index(b, c) ==
    Let(Rd(b, c, 8), LAMBDA h :
    IF Len(h) < 8 THEN [err |-> "struct.error", index |-> <<>>]
    ELSE
    Let(Unpack(h), LAMBDA offset :
    IF offset = 0 THEN [err |-> "AssertionError", index |-> <<>>]
    ELSE
    Let(Rd(b, offset, 1), LAMBDA flag :
    IF flag = <<>> THEN [err |-> "struct.error", index |-> <<>>]
    ELSE IF flag[1] = XP3FileIndexContinue
    THEN Let(Rd(b, offset + 1, 16), LAMBDA redirect :
         IF Len(redirect) < 16 THEN [err |-> "struct.error", index |-> <<>>]
         ELSE read_index_at(b, Unpack(SubSeq(redirect, 9, 16))))
    ELSE read_index_at(b, offset))))

RECURSIVE read_entries(_, _)
\* the while loop of XP3FileIndex.read_from over the bytes of the index
read_entries(index, c) ==
    IF ~(c < Len(index)) THEN [err |-> "none", entries |-> <<>>]
    ELSE
    Let(XP3FileEntry_read_from(index, c), LAMBDA e :
    IF e.err # "none" THEN [err |-> e.err, entries |-> <<>>]
    ELSE
    Let(read_entries(index, e.pos), LAMBDA rest :
    IF rest.err # "none" THEN rest
    ELSE [err |-> "none", entries |-> e.value \o rest.entries]))

\* XP3FileIndex.read_from(buffer) with the cursor c at the header offset field
XP3FileIndex_read_from(b, c) ==
    Let(read_index(b, c), LAMBDA index :
    IF index.err # "none" THEN [err |-> index.err, entries |-> <<>>]
    ELSE read_entries(index.index, 0))

----------------------------------------------------------------------------
(* The reader (xp3reader.py, structs/file.py) *)

\* getattr(segment, name) of a namedtuple: AttributeError for a name that is
\* not one of its fields
HasAttr(seg, name) == name \in DOMAIN seg

\* one pass of the for loop of XP3File.read: the bytes of a segment
read_segment(seg, buf) ==
    IF ~HasAttr(seg, "compressed") THEN [err |-> "AttributeError", value |-> <<>>]
    ELSE
    Let(Rd(buf, seg.offset, seg.compressed_size), LAMBDA data :
    Let(IF seg.compressed THEN zlib_decompress(data) ELSE [err |-> "none", value |-> data],
        LAMBDA d :
    IF d.err # "none" THEN d
    ELSE IF Len(d.value) # seg.uncompressed_size
    THEN [err |-> "AssertionError", value |-> <<>>]
    ELSE d))

RECURSIVE read_segment_data(_, _)
\* the for loop of XP3File.read over the segments: err and the bytes written
\* to file_buffer
read_segment_data(segments, buf) ==
    IF segments = <<>> THEN [err |-> "none", value |-> <<>>]
    ELSE
    Let(read_segment(Head(segments), buf), LAMBDA d :
    IF d.err # "none" THEN d
    ELSE
    Let(read_segment_data(Tail(segments), buf), LAMBDA rest :
    IF rest.err # "none" THEN rest
    ELSE [err |-> "none", value |-> d.value \o rest.value]))

\* XP3File.read(encryption_type, raw) of an entry over the bytes buf
XP3File_read(entry, buf, encryption_type, raw, numpy) ==
    Let(read_segment_data(entry.segm.segments, buf), LAMBDA file_buffer :
    IF file_buffer.err # "none" THEN file_buffer
    ELSE IF is_encrypted(entry)
    THEN IF encryption_type \in {"none", None} /\ ~raw
         THEN [err |-> "XP3DecryptionError", value |-> <<>>]
         ELSE xor(file_buffer.value, entry.adlr.value, encryption_type, numpy)
    ELSE file_buffer)

\* XP3FileIndex.__getitem__(item) by path: path_index keeps the last entry of a path
Lookup(entries, path) ==
    LET hits == {i \in 1..Len(entries) : file_path(entries[i]) = path}
    IN  IF hits = {} THEN <<>>
        ELSE <<entries[CHOOSE i \in hits : \A j \in hits : j <= i]>>

\* XP3Reader(buffer, use_numpy=numpy): the signature, then the file index
XP3Reader(archive, numpy) ==
    LET failed == [state |-> "failed", err |-> "AssertionError", buffer |-> archive,
                          entries |-> <<>>, use_numpy |-> numpy,
                          last |-> [op |-> "none"]]
    IN  IF Rd(archive, 0, Len(XP3Signature)) # XP3Signature THEN failed
        ELSE Let(XP3FileIndex_read_from(archive, Len(XP3Signature)), LAMBDA file_index :
             IF file_index.err # "none"
             THEN [failed EXCEPT !.err = file_index.err]
             ELSE [failed EXCEPT !.state = "open", !.err = "none",
                                        !.entries = file_index.entries])

\* XP3Reader.open(path).read(encryption_type, raw): err and the bytes returned
Reader_read(r, path, encryption_type, raw) ==
    Let(Lookup(r.entries, path), LAMBDA e :
    IF e = <<>> THEN [err |-> "KeyError", value |-> <<>>]
    ELSE XP3File_read(e[1], r.buffer, encryption_type, raw, r.use_numpy))

NoReader == [state |-> "none", err |-> "none", buffer |-> <<>>, entries |-> <<>>,
             use_numpy |-> FALSE, last |-> [op |-> "none"]]

\* the reader is opened on the bytes that pack_up returned
ReaderOpen ==
    /\ reader.state = "none"
    /\ result.op = "pack_up" /\ result.returned = "bytes"
    /\ reader' = XP3Reader(result.value, use_numpy)
    /\ UNCHANGED <<buffer, pos, closed, sink, file_entries, _filenames, packed_up,
                   use_numpy, result, added, call>>

\* a call of open(path).read(encryption_type, raw) on the open reader
ReaderRead(path, encryption_type, raw) ==
    /\ reader.state = "open"
    /\ Let(Reader_read(reader, path, encryption_type, raw), LAMBDA r :
           reader' = [reader EXCEPT !.last =
                        [op |-> "read", path |-> path, encryption_type |-> encryption_type,
                         raw |-> raw, err |-> r.err, value |-> r.value]])
    /\ UNCHANGED <<buffer, pos, closed, sink, file_entries, _filenames, packed_up,
                   use_numpy, result, added, call>>

----------------------------------------------------------------------------
(* Spec: a writer from its construction *)

NoCall == [fn |-> "none"]

\* XP3Writer.__init__ on an empty sink: the signature and the offset placeholder
Init ==
    /\ sink \in {"BytesIO", "file"}
    /\ use_numpy \in BOOLEAN
    /\ buffer = XP3Signature \o PackQ(0)
    /\ pos = Len(XP3Signature) + 8
    /\ closed = FALSE
    /\ file_entries = <<>>
    /\ _filenames = <<>>
    /\ packed_up = FALSE
    /\ result = Outcome("__init__", <<>>, "none", "None", <<>>)
    /\ added = <<>>
    /\ reader = NoReader
    /\ call = NoCall

ReadProfiles == Profiles \cup {None}

Next ==
    \/ \E p \in Paths, f \in AddInputs : Add(p, f[1], f[2], f[3])
    \/ PackUp
    \/ Exit

Spec == Init /\ [][Next]_vars

----------------------------------------------------------------------------
(* SpecRoundTrip: the writer, and a reader opened on the bytes that pack_up *)
(* returned                                                                 *)

NextRoundTrip ==
    \/ \E p \in Paths, f \in AddInputs : Add(p, f[1], f[2], f[3])
    \/ PackUp
    \/ Exit
    \/ ReaderOpen
    \/ \E p \in Paths, e \in ReadProfiles, raw \in BOOLEAN : ReaderRead(p, e, raw)

SpecRoundTrip == Init /\ [][NextRoundTrip]_vars

\* the add calls whose encryption profile is a supported one
Supported(a) == a.encryption_type \in ReadProfiles

\* C1: once a reader is open on the finalized archive, every file added under a
\* supported profile is found under its path, and reading it with that profile
\* returns the bytes that were added.
C1_RoundTrip ==
    reader.state = "open" =>
        \A i \in 1..Len(added) :
            Supported(added[i]) =>
                Let(Reader_read(reader, added[i].path, added[i].encryption_type, FALSE),
                    LAMBDA r : r.err = "none" /\ r.value = added[i].file)

\* C2: an add of a path that is already known is rejected, with FileExistsError
\* on a writer that is not packed up, and leaves the entry list, the known
\* paths, the sink's bytes and its position as they were.
C2_DuplicateRejected ==
    [][(result'.op = "add" /\ InSeq(result'.arg, _filenames)) =>
          /\ result'.err # "none"
          /\ ~packed_up => result'.err = "FileExistsError"
          /\ UNCHANGED <<file_entries, _filenames, buffer, pos>>]_vars

\* C2 witness: a duplicate add was rejected on a writer that knows two paths.
C2_Witness ==
    /\ result.op = "add" /\ result.err = "FileExistsError"
    /\ InSeq(result.arg, _filenames) /\ Len(_filenames) = 2 /\ ~packed_up

\* C3: on a writer that is packed up (and whose sink is open), a pack_up or a
\* context exit neither writes to nor repositions the sink, and pack_up returns
\* the archive bytes.
C3_FinalizeOnce ==
    [][(packed_up /\ ~closed /\ result'.op \in {"pack_up", "__exit__"}) =>
          /\ buffer' = buffer /\ pos' = pos
          /\ result'.op = "pack_up" => (result'.returned = "bytes" /\ result'.value = buffer)]_vars

\* C8: after an add of a new path under a supported profile, the writer holds an
\* entry for it whose one segment is marked compressed exactly when the deflate
\* output is shorter than the content, with uncompressed_size the length of the
\* content and compressed_size the number of bytes appended to the sink.
C8_CompressionPolicy ==
    (/\ result.op = "add" /\ result.err \notin {"FileExistsError", "Exception"}
     /\ Supported(added[Len(added)])) =>
        /\ Len(file_entries) = Len(added)
        /\ LET f == added[Len(added)].file
               seg == file_entries[Len(file_entries)].segm.segments[1]
           IN  /\ seg.is_compressed = (Len(zlib_compress(f)) < Len(f))
               /\ seg.uncompressed_size = Len(f)
               /\ seg.compressed_size = Len(buffer) - seg.offset
               /\ ~seg.is_compressed => seg.compressed_size = seg.uncompressed_size

----------------------------------------------------------------------------
(* Archives to read: files laid out in the sink as the writer lays them out *)
(* (the data of the files after the 19-byte header, then the index), their  *)
(* segments built by position                                               *)

MaxEntries == 2

\* the entry and the stored bytes of a file f = [path, file, encryption_type,
\* timestamp, segments] whose data starts at offset; segments is the number of
\* segments (0 or 1) that hold its content
SampleEntry(f, offset) ==
    Let(zlib_compress(f.file), LAMBDA compressed_data :
    Let(XP3FileAdler_from_data(f.file), LAMBDA adlr :
    LET uncompressed_size == Len(f.file)
        is_compressed == Len(compressed_data) < uncompressed_size
        data == IF is_compressed THEN compressed_data ELSE f.file
        encrypted == f.encryption_type \notin {"none", None}
        stored == IF f.segments = 0 THEN <<>>
                  ELSE IF encrypted
                  THEN xor_numpy(data, adlr.value, f.encryption_type).value
                  ELSE data
        encryption == IF encrypted
                      THEN <<XP3FileEncryption(adlr.value, f.path,
                                 encryption_parameters[f.encryption_type].name)>>
                      ELSE <<>>
        info == XP3FileInfo(encrypted, uncompressed_size, Len(stored),
                            IF ~encrypted THEN f.path
                            ELSE md5_hexdigest(utf16le(lower(f.path))))
        segments == IF f.segments = 0 THEN <<>>
                    ELSE <<segment_positional(is_compressed, offset, uncompressed_size,
                                              Len(stored))>>
    IN  [entry |-> XP3FileEntry(encryption, XP3FileTime(f.timestamp), adlr,
                                XP3FileSegments(segments), info).value[1],
         data |-> stored]))

RECURSIVE SampleLayout(_, _)
\* the entries and the data region of the files, the first at offset
SampleLayout(files, offset) ==
    IF files = <<>> THEN [entries |-> <<>>, data |-> <<>>]
    ELSE Let(SampleEntry(Head(files), offset), LAMBDA e :
         Let(SampleLayout(Tail(files), offset + Len(e.data)), LAMBDA rest :
         [entries |-> <<e.entry>> \o rest.entries, data |-> e.data \o rest.data]))

\* the bytes of the archive that holds files
SampleArchive(files) ==
    Let(SampleLayout(files, Len(XP3Signature) + 8), LAMBDA l :
    XP3Signature \o PackQ(Len(XP3Signature) + 8 + Len(l.data)) \o l.data
    \o XP3FileIndex_to_bytes(l.entries))

\* the contents, profiles and timestamps of the files of the sample archives
SampleContents == { <<>>, <<100, 49>>, Ones(4 * MaxLen) }
SampleProfiles == { None, "neko_vol0", "neko_vol1" }

SampleFile(path, file, encryption_type, segments) ==
    [path |-> path, file |-> file, encryption_type |-> encryption_type,
     timestamp |-> 1500 * Len(file), segments |-> segments]

\* the files that can stand at a path: every content under every profile in
\* one segment, and the empty file without a segment
SampleFilesAt(path) ==
    { SampleFile(path, c, e, 1) : c \in SampleContents, e \in SampleProfiles }
    \cup { SampleFile(path, <<>>, e, 0) : e \in SampleProfiles }

\* lists of 1..MaxEntries files at the paths "a", "b", ...
SampleFileLists ==
    UNION { { fs \in [1..n -> UNION { SampleFilesAt(<<96 + i>>) : i \in 1..n }] :
                \A i \in 1..n : fs[i].path = <<96 + i>> } : n \in 1..MaxEntries }

----------------------------------------------------------------------------
(* In the specifications below the writer does not run *)

Idle ==
    /\ buffer = <<>> /\ pos = 0 /\ closed = FALSE /\ sink = "BytesIO"
    /\ file_entries = <<>> /\ _filenames = <<>> /\ packed_up = FALSE
    /\ result = Outcome("none", <<>>, "none", "None", <<>>)

----------------------------------------------------------------------------
(* SpecReader: a reader opened on a sample archive; added holds the files   *)
(* that the archive was made of                                             *)

InitReader ==
    /\ Idle
    /\ use_numpy \in BOOLEAN
    /\ added \in SampleFileLists
    /\ reader = XP3Reader(SampleArchive(added), use_numpy)
    /\ call = NoCall

NextReader ==
    \E p \in Paths, e \in ReadProfiles, raw \in BOOLEAN : ReaderRead(p, e, raw)

SpecReader == InitReader /\ [][NextReader]_vars

\* the entry that the last read was about is an encrypted one
LastReadEncrypted ==
    /\ reader.last.op = "read"
    /\ Lookup(reader.entries, reader.last.path) # <<>>
    /\ is_encrypted(Lookup(reader.entries, reader.last.path)[1])

\* the file that the archive holds at a path
AddedAt(path) == added[CHOOSE i \in 1..Len(added) : added[i].path = path]

\* C4: a read of an encrypted entry with no profile or with 'none', not raw,
\* fails with XP3DecryptionError and leaves the index as it was; a read of an
\* encrypted entry with the profile it was written with returns the plaintext.
C4_DecryptionRequired ==
    /\ (LastReadEncrypted /\ reader.last.encryption_type \in {"none", None}
        /\ ~reader.last.raw) => reader.last.err = "XP3DecryptionError"
    /\ (LastReadEncrypted /\ ~reader.last.raw
        /\ reader.last.encryption_type = AddedAt(reader.last.path).encryption_type)
           => (reader.last.err = "none" /\ reader.last.value = AddedAt(reader.last.path).file)
    /\ reader.last.op = "read" =>
           reader.entries = XP3FileIndex_read_from(reader.buffer, Len(XP3Signature)).entries

\* the bytes of the segments of an entry as they are stored, decompressed where
\* the segment is marked compressed
StoredBytes(entry) ==
    Concat([i \in 1..Len(entry.segm.segments) |->
        LET seg == entry.segm.segments[i]
            data == Rd(reader.buffer, seg.offset, seg.compressed_size)
        IN  IF seg.is_compressed THEN zlib_decompress(data).value ELSE data])

\* C5: a raw read of an encrypted entry with no profile or with 'none' succeeds
\* and returns the stored bytes of the segments, no byte of them changed.
C5_RawRead ==
    (LastReadEncrypted /\ reader.last.raw /\ reader.last.encryption_type \in {"none", None}) =>
        /\ reader.last.err = "none"
        /\ reader.last.value = StoredBytes(Lookup(reader.entries, reader.last.path)[1])

----------------------------------------------------------------------------
(* SpecXor: XP3File.xor applied to a buffer, and to its result *)

\* the bytes of the buffers, and the checksums: of b'', the master key of
\* neko_vol1 (the folded key is 0) and of b'dummydata1'
XorBytes == {0, 49, 156}
Buffers == UNION { [1..n -> XorBytes] : n \in 0..MaxLen }
Checksums == { adler32(<<>>), encryption_parameters.neko_vol1.master_key, <<248, 3, 15, 23>> }

InitXor ==
    /\ Idle /\ use_numpy = FALSE /\ added = <<>> /\ reader = NoReader
    /\ call \in { [fn |-> "xor", data |-> d, original |-> d, adler32 |-> a,
                   encryption_type |-> e, numpy |-> n, err |-> "none", applied |-> 0] :
                  d \in Buffers, a \in Checksums, e \in Profiles, n \in BOOLEAN }

\* XP3File.xor(output_buffer, adler32, encryption_type, use_numpy)
XorApply ==
    /\ call.fn = "xor" /\ call.err = "none" /\ call.applied < 2
    /\ Let(xor(call.data, call.adler32, call.encryption_type, call.numpy), LAMBDA r :
           call' = [call EXCEPT !.data = r.value, !.err = r.err, !.applied = @ + 1])
    /\ UNCHANGED <<wvars, reader>>

NextXor == XorApply

SpecXor == InitXor /\ [][NextXor]_vars

\* C6: the XOR operation completes without error for every profile, checksum
\* and buffer, and applied twice it leaves the buffer as it was.
C6_Involution ==
    /\ call.applied >= 1 => call.err = "none"
    /\ call.applied = 2 => call.data = call.original

\* C7: the other backend gives the outcome that the called backend gave: both
\* fail, or both leave the same bytes.
C7_BackendsAgree ==
    call.applied = 1 =>
        Let(xor(call.original, call.adler32, call.encryption_type, ~call.numpy), LAMBDA other :
            /\ (call.err = "none") = (other.err = "none")
            /\ call.err = "none" => call.data = other.value)

----------------------------------------------------------------------------
(* SpecIndex: XP3FileIndex.to_bytes of an index of 0..MaxEntries entries *)

\* the path "abc..." of n characters
LongPath(n) == [i \in 1..n |-> 96 + i]

\* files whose entries deflate well (short paths), badly (long paths, hashed
\* paths of encrypted files) and about as well as the header overhead
IndexFiles ==
    { SampleFile(LongPath(n), <<>>, None, 1) : n \in {1, 18, 19, 20, 23} }
    \cup { SampleFile(LongPath(19), Ones(4 * MaxLen), None, 1),
           SampleFile(LongPath(1), <<100, 49>>, "neko_vol0", 1),
           SampleFile(LongPath(20), <<>>, None, 0) }

InitIndex ==
    /\ Idle /\ use_numpy = FALSE /\ added = <<>> /\ reader = NoReader
    /\ \E n \in 0..MaxEntries : \E fs \in [1..n -> IndexFiles] :
          call = [fn |-> "index", entries |-> SampleLayout(fs, Len(XP3Signature) + 8).entries,
                  out |-> <<>>, done |-> FALSE]

IndexToBytes ==
    /\ call.fn = "index" /\ ~call.done
    /\ call' = [call EXCEPT !.out = XP3FileIndex_to_bytes(call.entries), !.done = TRUE]
    /\ UNCHANGED <<wvars, reader>>

NextIndex == IndexToBytes

SpecIndex == InitIndex /\ [][NextIndex]_vars

\* the entry encodings of the index of call, one after the other
RawIndex == Concat([i \in 1..Len(call.entries) |-> XP3FileEntry_to_bytes(call.entries[i])])

\* the two forms of an index: flag, sizes, bytes
CompressedForm(raw) ==
    <<XP3FileIndexCompressed>> \o PackQ(Len(zlib_compress(raw))) \o PackQ(Len(raw)) \o zlib_compress(raw)
RawForm(raw) == <<Xp3FileIndexUncompressed>> \o PackQ(Len(raw)) \o raw

\* C9: the serialized index is the compressed form exactly when that form,
\* header included, is strictly shorter than the raw form, and the raw form
\* otherwise; it is never longer than the raw form.
C9_IndexForm ==
    call.done =>
        Let(RawIndex, LAMBDA raw :
            /\ call.out = IF Len(CompressedForm(raw)) < Len(RawForm(raw))
                          THEN CompressedForm(raw) ELSE RawForm(raw)
            /\ Len(call.out) <= Len(RawForm(raw))
            /\ call.out[1] = XP3FileIndexCompressed => zlib_decompress(Slice(call.out, 18, Len(call.out))).value = raw)

\* C9 witness: an index that is written raw although its deflate output is
\* shorter than its entries.
C9_Witness ==
    /\ call.done /\ call.out[1] = Xp3FileIndexUncompressed /\ Len(call.entries) >= 1
    /\ Len(zlib_compress(RawIndex)) < Len(RawIndex)

----------------------------------------------------------------------------
(* SpecTime: the time chunk of a timestamp, written and read back *)

MaxTime == 40

Timestamps == (0..MaxTime) \cup { 500 * k : k \in 0..MaxTime }

InitTime ==
    /\ Idle /\ use_numpy = FALSE /\ added = <<>> /\ reader = NoReader
    /\ \E t \in Timestamps :
          call = [fn |-> "time", timestamp |-> t, bytes |-> <<>>, err |-> "none",
                  parsed |-> XP3FileTime(0), stage |-> "init"]

\* XP3FileTime(timestamp).to_bytes(), as _create_file_entry builds the chunk
TimeToBytes ==
    /\ call.fn = "time" /\ call.stage = "init"
    /\ call' = [call EXCEPT !.bytes = XP3FileTime_to_bytes(XP3FileTime(call.timestamp)),
                            !.stage = "to_bytes"]
    /\ UNCHANGED <<wvars, reader>>

\* XP3FileTime.read_from on the bytes after the tag
TimeReadFrom ==
    /\ call.fn = "time" /\ call.stage = "to_bytes"
    /\ Let(XP3FileTime_read_from(SubSeq(call.bytes, 5, Len(call.bytes))), LAMBDA r :
           call' = [call EXCEPT !.parsed = r.value, !.err = r.err, !.stage = "read_from"])
    /\ UNCHANGED <<wvars, reader>>

NextTime == TimeToBytes \/ TimeReadFrom

SpecTime == InitTime /\ [][NextTime]_vars

----------------------------------------------------------------------------
(* The layout of the sink: header, data region, index *)

\* the size of the header: the signature and the 8-byte index offset field
HeaderSize == Len(XP3Signature) + 8

\* the value of the index offset field of the sink
HeaderOffset == Unpack(Rd(buffer, Len(XP3Signature), 8))

\* the sum of the stored sizes of the first n entries of the writer
StoredSize(n) ==
    SumRange([i \in 1..n |-> file_entries[i].segm.segments[1].compressed_size], 1, n)

\* C11: once a reader is open on the finalized archive, every file added under
\* a supported profile with timestamp t has an entry whose time.timestamp is
\* t divided by 1000, rounded down.
C11_TimestampSeconds ==
    reader.state = "open" =>
        \A i \in 1..Len(added) :
            Supported(added[i]) =>
                Let(Lookup(reader.entries, added[i].path), LAMBDA e :
                    /\ e # <<>>
                    /\ e[1].time.timestamp = added[i].timestamp \div 1000)

\* C12: an add on a packed-up writer is rejected and leaves the entry list, the
\* known paths and the sink as they were; on a packed-up writer the data of
\* every entry lies between the header and the index, and the index in the
\* sink holds the entries of the writer.
C12_IndexAfterData ==
    /\ [][(packed_up /\ result'.op = "add") =>
             /\ result'.err = "Exception"
             /\ UNCHANGED <<file_entries, _filenames, buffer, pos>>]_vars
    /\ [](packed_up =>
             /\ \A i \in 1..Len(file_entries) :
                   LET seg == file_entries[i].segm.segments[1]
                   IN  /\ seg.offset >= HeaderSize
                       /\ seg.offset + seg.compressed_size <= HeaderOffset
             /\ XP3FileIndex_read_from(buffer, Len(XP3Signature)).err = "none"
             /\ XP3FileIndex_read_from(buffer, Len(XP3Signature)).entries = file_entries)

\* C12 witness: an add was rejected on a packed-up writer that had taken adds.
C12_Witness ==
    packed_up /\ result.op = "add" /\ result.err = "Exception" /\ Len(added) >= 1

\* C13: the index offset field is zero until the writer is packed up; from then
\* on it holds the offset at which the index stands in the sink, which is the
\* header size plus the stored sizes of the entries; the step that packs up
\* leaves the signature and the data region as they were.
C13_HeaderOffset ==
    /\ [](~packed_up => Rd(buffer, Len(XP3Signature), 8) = PackQ(0))
    /\ [](packed_up =>
             /\ HeaderOffset = HeaderSize + StoredSize(Len(file_entries))
             /\ Let(XP3FileIndex_to_bytes(file_entries), LAMBDA index :
                    Rd(buffer, HeaderOffset, Len(index)) = index))
    /\ [][(~packed_up /\ packed_up') =>
             /\ Rd(buffer', 0, Len(XP3Signature)) = Rd(buffer, 0, Len(XP3Signature))
             /\ Rd(buffer', HeaderSize, Len(buffer) - HeaderSize)
                    = Rd(buffer, HeaderSize, Len(buffer) - HeaderSize)]_vars

\* C13 witness: a writer that took adds was packed up on a file sink.
C13_Witness ==
    /\ packed_up /\ sink = "file" /\ result.op = "pack_up" /\ Len(added) >= 1
    /\ HeaderOffset = HeaderSize

----------------------------------------------------------------------------
(* Reads of the entries of the sample archives (SpecReader) *)

\* the entry that the last read was about
LastEntry == Lookup(reader.entries, reader.last.path)[1]

\* C15: a read of an encrypted entry with a profile other than 'none' and other
\* than the one it was written with returns content whose Adler-32 is not the
\* checksum of the entry, and that checksum is the Adler-32 of the plaintext.
C15_WrongProfile ==
    (/\ LastReadEncrypted /\ ~reader.last.raw
     /\ reader.last.encryption_type \in Profiles \ {"none"}
     /\ reader.last.encryption_type # AddedAt(reader.last.path).encryption_type) =>
        /\ reader.last.err = "none"
        /\ adler32(reader.last.value) # LastEntry.adlr.value
        /\ LastEntry.adlr.value = adler32(AddedAt(reader.last.path).file)

\* the bytes that a segment decodes to: inflated when it is marked compressed
Decoded(seg) ==
    Let(Rd(reader.buffer, seg.offset, seg.compressed_size), LAMBDA data :
        IF seg.is_compressed THEN zlib_decompress(data) ELSE [err |-> "none", value |-> data])

\* C18: a read of an entry that is not encrypted fails when a segment does not
\* decode to its uncompressed_size, and otherwise returns the decoded bytes of
\* the segments in the order of the segment list.
C18_SegmentsInOrder ==
    (/\ reader.last.op = "read"
     /\ Lookup(reader.entries, reader.last.path) # <<>>
     /\ ~is_encrypted(LastEntry)) =>
        LET segments == LastEntry.segm.segments
            corrupt == \E i \in 1..Len(segments) :
                          \/ Decoded(segments[i]).err # "none"
                          \/ Len(Decoded(segments[i]).value) # segments[i].uncompressed_size
        IN  IF corrupt THEN reader.last.err # "none"
            ELSE /\ reader.last.err = "none"
                 /\ reader.last.value =
                        Concat([i \in 1..Len(segments) |-> Decoded(segments[i]).value])

----------------------------------------------------------------------------
(* The keystream of XP3File.xor (SpecXor) *)

\* C19: after one application the buffer has its length, and each byte is the
\* byte before XOR the bulk key, the XOR of the four bytes of checksum XOR
\* master key or the secondary key when that is 0; byte 0 is XORed with the
\* first-byte key as well exactly when the profile sets xor_the_first_byte.
C19_Keystream ==
    call.applied = 1 =>
        LET p == encryption_parameters[call.encryption_type]
            k == [i \in 1..4 |-> BitXor(call.adler32[i], p.master_key[i])]
            folded == BitXor(BitXor(k[4], k[3]), BitXor(k[2], k[1]))
            bulk == IF folded = 0 THEN p.secondary_key ELSE folded
            first == IF k[1] = 0 THEN p.master_key[1] ELSE k[1]
        IN  /\ Len(call.data) = Len(call.original)
            /\ \A i \in 1..Len(call.data) :
                  call.data[i] = IF i = 1 /\ p.xor_the_first_byte
                                 THEN BitXor(BitXor(call.original[i], bulk), first)
                                 ELSE BitXor(call.original[i], bulk)

\* C19 witness: a buffer of two bytes or more went through the first-byte step
\* with a folded key of 0 and a first byte of the key of 0.
C19_Witness ==
    /\ call.applied = 1 /\ call.err = "none" /\ Len(call.data) >= 2
    /\ call.encryption_type = "neko_vol0"
    /\ call.adler32 = encryption_parameters.neko_vol0.master_key
    /\ call.data[1] # call.original[1]

----------------------------------------------------------------------------
(* SpecLocate: XP3FileIndex.read_index on archives whose header and          *)
(* continuation records point at any record, at offset 0 and past the end    *)

MaxRecords == 3

\* every record of these archives takes RecordSize bytes, padded with zeros
RecordSize == 1 + 8 + 8 + Len(zlib_compress(<<1>>))
Padded(bytes) == bytes \o [i \in 1..(RecordSize - Len(bytes)) |-> 0]

\* the offset of record j, and the offsets a header or a redirect can hold:
\* 0, the records, and the end of the archive
RecordOffset(j) == HeaderSize + (j - 1) * RecordSize
Targets == {0} \cup { RecordOffset(j) : j \in 1..(MaxRecords + 1) }

\* the kinds of record: a raw index, a compressed index, a byte that is no
\* flag, and a continuation record for each target
RecordKinds ==
    { [kind |-> k, target |-> 0] : k \in {"raw", "compressed", "junk"} }
    \cup { [kind |-> "continue", target |-> t] : t \in Targets }

\* the bytes of record j of kind r; the index it holds is the one byte j
RecordBytes(r, j) ==
    Padded(IF r.kind = "raw" THEN <<Xp3FileIndexUncompressed>> \o PackQ(1) \o <<j>>
           ELSE IF r.kind = "compressed"
           THEN <<XP3FileIndexCompressed>> \o PackQ(Len(zlib_compress(<<j>>))) \o PackQ(1)
                \o zlib_compress(<<j>>)
           ELSE IF r.kind = "continue"
           THEN <<XP3FileIndexContinue>> \o PackQ(0) \o PackQ(r.target)
           ELSE <<2>>)

\* the archive with the header offset h and the records of layout
LocateArchive(h, layout) ==
    XP3Signature \o PackQ(h) \o Concat([j \in 1..Len(layout) |-> RecordBytes(layout[j], j)])

InitLocate ==
    /\ Idle /\ use_numpy = FALSE /\ added = <<>> /\ reader = NoReader
    /\ \E h \in Targets : \E layout \in [1..MaxRecords -> RecordKinds] :
          call = [fn |-> "read_index", header |-> h, layout |-> layout,
                  archive |-> LocateArchive(h, layout),
                  err |-> "none", index |-> <<>>, done |-> FALSE]

\* XP3FileIndex.read_index(buffer), the cursor after the signature
ReadIndex ==
    /\ call.fn = "read_index" /\ ~call.done
    /\ Let(read_index(call.archive, Len(XP3Signature)), LAMBDA r :
           call' = [call EXCEPT !.err = r.err, !.index = r.index, !.done = TRUE])
    /\ UNCHANGED <<wvars, reader>>

NextLocate == ReadIndex

SpecLocate == InitLocate /\ [][NextLocate]_vars

\* the record of the archive of call that stands at offset o, if any
RecordAt(o) ==
    IF \E j \in 1..MaxRecords : RecordOffset(j) = o
    THEN <<call.layout[CHOOSE j \in 1..MaxRecords : RecordOffset(j) = o]>>
    ELSE <<>>

\* offset o holds an index record; IndexAt is the index it holds
HoldsIndex(o) == RecordAt(o) # <<>> /\ RecordAt(o)[1].kind \in {"raw", "compressed"}
IndexAt(o) == <<CHOOSE j \in 1..MaxRecords : RecordOffset(j) = o>>

\* C16: read_index returns the index that the header points at, or the index
\* that the continuation record the header points at redirects to, and fails
\* in every other case: a header offset of 0, a flag byte that is no flag or
\* is missing, and a second continuation record.
C16_OneRedirect ==
    call.done =>
        LET h == call.header
            via == IF RecordAt(h) # <<>> /\ RecordAt(h)[1].kind = "continue"
                   THEN RecordAt(h)[1].target ELSE h
        IN  IF h # 0 /\ HoldsIndex(via)
            THEN call.err = "none" /\ call.index = IndexAt(via)
            ELSE call.err # "none" /\ call.index = <<>>

\* C16 witness: the header points at a continuation record that points at a
\* continuation record that points at an index, and read_index failed.
C16_Witness ==
    /\ call.done /\ call.err = "AssertionError"
    /\ RecordAt(call.header) # <<>> /\ RecordAt(call.header)[1].kind = "continue"
    /\ RecordAt(RecordAt(call.header)[1].target) # <<>>
    /\ RecordAt(RecordAt(call.header)[1].target)[1].kind = "continue"
    /\ HoldsIndex(RecordAt(RecordAt(call.header)[1].target)[1].target)

----------------------------------------------------------------------------
(* SpecLegacy: the same files in an archive whose header points at the index *)
(* and in one whose header points at a continuation record                   *)

\* the files of these archives: the sample files that have a segment
LegacyFileLists ==
    { fs \in SampleFileLists : \A i \in 1..Len(fs) : fs[i].segments = 1 }

\* the continuation record that points at offset o
ContinuationRecord(o) == <<XP3FileIndexContinue>> \o PackQ(0) \o PackQ(o)

\* the archive of files with a continuation record before or after the index
LegacyArchive(files, place) ==
    Let(SampleLayout(files, HeaderSize), LAMBDA l :
    Let(XP3FileIndex_to_bytes(l.entries), LAMBDA index :
    LET data_end == HeaderSize + Len(l.data)
    IN  IF place = "before"
        THEN XP3Signature \o PackQ(data_end) \o l.data
             \o ContinuationRecord(data_end + 17) \o index
        ELSE XP3Signature \o PackQ(data_end + Len(index)) \o l.data
             \o index \o ContinuationRecord(data_end)))

InitLegacy ==
    /\ Idle /\ use_numpy = FALSE /\ reader = NoReader
    /\ added \in LegacyFileLists
    /\ \E place \in {"before", "after"} :
          call = [fn |-> "read_from", place |-> place,
                  direct |-> SampleArchive(added), legacy |-> LegacyArchive(added, place),
                  direct_index |-> <<>>, legacy_index |-> <<>>]

\* XP3FileIndex.read_from on the archive whose header points at the index
ReadDirect ==
    /\ call.fn = "read_from" /\ call.direct_index = <<>>
    /\ call' = [call EXCEPT !.direct_index =
                   <<XP3FileIndex_read_from(call.direct, Len(XP3Signature))>>]
    /\ UNCHANGED <<wvars, reader>>

\* XP3FileIndex.read_from on the archive with the continuation record
ReadLegacy ==
    /\ call.fn = "read_from" /\ call.legacy_index = <<>>
    /\ call' = [call EXCEPT !.legacy_index =
                   <<XP3FileIndex_read_from(call.legacy, Len(XP3Signature))>>]
    /\ UNCHANGED <<wvars, reader>>

NextLegacy == ReadDirect \/ ReadLegacy

SpecLegacy == InitLegacy /\ [][NextLegacy]_vars

\* C17: the two archives decode without error to the same sequence of
\* entries, one for each file in the order of the files.
C17_LegacyEquivalent ==
    (call.direct_index # <<>> /\ call.legacy_index # <<>>) =>
        /\ call.direct_index[1].err = "none" /\ call.legacy_index[1].err = "none"
        /\ call.legacy_index[1].entries = call.direct_index[1].entries
        /\ Len(call.legacy_index[1].entries) = Len(added)
        /\ \A i \in 1..Len(added) :
              file_path(call.legacy_index[1].entries[i]) = added[i].path

\* C17 witness: both archives of two files were decoded, the index of the
\* legacy one standing before its continuation record.
C17_Witness ==
    /\ call.direct_index # <<>> /\ call.legacy_index # <<>>
    /\ call.place = "after" /\ Len(call.legacy_index[1].entries) = 2

----------------------------------------------------------------------------
(* SpecParse: XP3FileEntry.read_from on records that hold some of the chunks *)

\* the files whose entries are parsed
ParseFiles ==
    { SampleFile(<<97>>, <<100, 49>>, None, 1),
      SampleFile(<<97>>, <<100, 49>>, "neko_vol0", 1),
      SampleFile(<<98>>, Ones(4 * MaxLen), "neko_vol1", 1) }

ChunkNames == {"time", "adlr", "segm", "info"}

\* the record of entry with the chunks of present, in the order of to_bytes;
\* next is the tag that follows the encryption chunk of an encrypted entry
RecordOf(entry, present, next) ==
    LET chunks == (IF "time" \in present THEN XP3FileTime_to_bytes(entry.time) ELSE <<>>)
                  \o (IF "adlr" \in present THEN XP3FileAdler_to_bytes(entry.adlr) ELSE <<>>)
                  \o (IF "segm" \in present THEN XP3FileSegments_to_bytes(entry.segm) ELSE <<>>)
                  \o (IF "info" \in present THEN XP3FileInfo_to_bytes(entry.info) ELSE <<>>)
    IN  (IF is_encrypted(entry)
         THEN XP3FileEncryption_to_bytes(entry.encryption[1]) \o next ELSE tag_File)
        \o PackQ(Len(chunks)) \o chunks

InitParse ==
    /\ Idle /\ use_numpy = FALSE /\ added = <<>> /\ reader = NoReader
    /\ \E f \in ParseFiles, present \in SUBSET ChunkNames, next \in {tag_File, tag_info} :
          /\ (f.encryption_type = None) => next = tag_File
          /\ call = [fn |-> "read_entry", file |-> f, present |-> present, next |-> next,
                     bytes |-> RecordOf(SampleEntry(f, HeaderSize).entry, present, next),
                     err |-> "none", entry |-> <<>>, done |-> FALSE]

\* XP3FileEntry.read_from(buffer) on the bytes of the record
ParseEntry ==
    /\ call.fn = "read_entry" /\ ~call.done
    /\ Let(XP3FileEntry_read_from(call.bytes, 0), LAMBDA r :
           call' = [call EXCEPT !.err = r.err, !.entry = r.value, !.done = TRUE])
    /\ UNCHANGED <<wvars, reader>>

NextParse == ParseEntry

SpecParse == InitParse /\ [][NextParse]_vars

\* C20: parsing fails for a record whose encryption chunk is not followed by
\* the File tag and for a record without an adlr, a segm or an info chunk;
\* every other record parses, with the timestamp of its time chunk in seconds,
\* or 0 when it has no time chunk, and with the chunks it was made of.
C20_MandatoryChunks ==
    call.done =>
        LET e == SampleEntry(call.file, HeaderSize).entry
        IN  IF call.next # tag_File \/ ~({"adlr", "segm", "info"} \subseteq call.present)
            THEN call.err # "none" /\ call.entry = <<>>
            ELSE /\ call.err = "none"
                 /\ call.entry[1].time.timestamp =
                        IF "time" \in call.present THEN e.time.timestamp \div 1000 ELSE 0
                 /\ call.entry[1].adlr = e.adlr /\ call.entry[1].segm = e.segm
                 /\ call.entry[1].info = e.info /\ call.entry[1].encryption = e.encryption

\* C20 witness: an encrypted record without a time chunk was parsed.
C20_Witness ==
    /\ call.done /\ call.err = "none" /\ "time" \notin call.present
    /\ is_encrypted(call.entry[1]) /\ call.entry[1].time.timestamp = 0

----------------------------------------------------------------------------
(* SpecLengths: XP3FileEntry.read_from on records in which one declared    *)
(* length is wrong or whose last bytes are missing                          *)

\* a chunk (4-byte tag, 8-byte length, payload) with delta added to the length
\* it declares
Relength(chunk, delta) ==
    SubSeq(chunk, 1, 4) \o PackQ(Unpack(SubSeq(chunk, 5, 12)) + delta)
    \o SubSeq(chunk, 13, Len(chunk))

\* to_bytes of entry with delta added to the length that the chunk field
\* declares, and without its last cut bytes
AlteredRecord(entry, field, delta, cut) ==
    LET at(name) == IF field = name THEN delta ELSE 0
        body == XP3FileTime_to_bytes(entry.time) \o XP3FileAdler_to_bytes(entry.adlr)
                \o Relength(XP3FileSegments_to_bytes(entry.segm), at("segm"))
                \o Relength(XP3FileInfo_to_bytes(entry.info), at("info"))
        encryption == IF is_encrypted(entry)
                      THEN Relength(XP3FileEncryption_to_bytes(entry.encryption[1]),
                                    at("encryption"))
                      ELSE <<>>
        record == encryption \o tag_File \o PackQ(Len(body) + at("File")) \o body
    IN  SubSeq(record, 1, Len(record) - cut)

\* the least change of the length of the File record that puts the end of the
\* loop of read_from (start + size, start being the position of the length
\* field) after the last byte of the record
LoopDelta == 8 + 1

\* the records: each chunk that declares the length of a payload of variable
\* length, with that length changed by delta, and the record cut short by cut
InitLengths ==
    /\ Idle /\ use_numpy = FALSE /\ added = <<>> /\ reader = NoReader
    /\ \E f \in ParseFiles, field \in {"encryption", "File", "segm", "info"},
          delta \in {0 - 1, 0, 1, LoopDelta}, cut \in {0, 1} :
          /\ (f.encryption_type = None) => field # "encryption"
          /\ call = [fn |-> "read_altered", file |-> f, field |-> field, delta |-> delta,
                     cut |-> cut,
                     bytes |-> AlteredRecord(SampleEntry(f, HeaderSize).entry, field, delta, cut),
                     err |-> "none", entry |-> <<>>, pos |-> 0, done |-> FALSE]

\* XP3FileEntry.read_from(buffer) on the bytes of the altered record
ParseAltered ==
    /\ call.fn = "read_altered" /\ ~call.done
    /\ Let(XP3FileEntry_read_from(call.bytes, 0), LAMBDA r :
           call' = [call EXCEPT !.err = r.err, !.entry = r.value, !.pos = r.pos,
                                !.done = TRUE])
    /\ UNCHANGED <<wvars, reader>>

SpecLengths == InitLengths /\ [][ParseAltered]_vars

\* C21: a record in which the declared length of the encryption chunk, of the
\* File record, of the segm chunk or of the info chunk is not the length of its
\* payload, or whose last byte is missing, is not parsed: read_from fails.
C21_LengthsChecked ==
    (call.done /\ (call.delta # 0 \/ call.cut # 0)) =>
        call.err \in {"AssertionError", "struct.error"}

\* C25: XP3FileEntry.read_from returns or raises on every record, also on one
\* whose File record declares a length that reaches past the last byte: its
\* loop over the sub-chunks never repeats a pass without moving the cursor.
\* (The model gives the loop that repeats such a pass forever the outcome
\* "nontermination".)
C25_ParsingTerminates ==
    call.done => call.err # "nontermination"

----------------------------------------------------------------------------
(* SpecCodec: an entry serialized by to_bytes, the bytes parsed by          *)
(* read_from, the parsed entry serialized again, and so on                  *)

MaxPasses == 2

\* the entries: every sample file at the path "a" and at a path with a
\* character outside the basic plane (U+1F600), with the timestamps 0, 999 and
\* one of at least a second (in milliseconds)
InitCodec ==
    /\ Idle /\ use_numpy = FALSE /\ added = <<>> /\ reader = NoReader
    /\ \E f \in SampleFilesAt(<<97>>) \cup SampleFilesAt(<<97, 128512>>),
          t \in {0, 999, 1000 * MaxTime + 1} :
          LET e == SampleEntry([f EXCEPT !.timestamp = t], HeaderSize).entry
          IN  call = [fn |-> "codec", first |-> e, first_bytes |-> <<>>, entry |-> e,
                      bytes |-> <<>>, err |-> "none", passes |-> 0, stage |-> "entry"]

\* entry.to_bytes()
EntryToBytes ==
    /\ call.fn = "codec" /\ call.stage = "entry" /\ call.passes <= MaxPasses
    /\ Let(XP3FileEntry_to_bytes(call.entry), LAMBDA b :
           call' = [call EXCEPT !.bytes = b, !.stage = "bytes",
                                !.first_bytes = IF call.passes = 0 THEN b ELSE @])
    /\ UNCHANGED <<wvars, reader>>

\* XP3FileEntry.read_from(BytesIO(bytes))
EntryReadFrom ==
    /\ call.fn = "codec" /\ call.stage = "bytes" /\ call.passes < MaxPasses
    /\ Let(XP3FileEntry_read_from(call.bytes, 0), LAMBDA r :
           call' = [call EXCEPT !.err = r.err, !.passes = @ + 1,
                                !.stage = IF r.err = "none" THEN "entry" ELSE "failed",
                                !.entry = IF r.err = "none" THEN r.value[1] ELSE @])
    /\ UNCHANGED <<wvars, reader>>

SpecCodec == InitCodec /\ [][EntryToBytes \/ EntryReadFrom]_vars

\* C22 as stated: the entry parsed from the bytes of an entry has the same
\* time, checksum, segment list, info fields and encryption sub-record, and
\* the bytes of the parsed entry are the bytes it was parsed from.
C22_ExactInverse ==
    call.passes >= 1 =>
        /\ call.err = "none"
        /\ call.entry = call.first
        /\ call.stage = "bytes" => call.bytes = call.first_bytes

\* What does hold of the passes, for the paths that encode to one 16-bit unit
\* per character: every pass succeeds and keeps the checksum, the segment
\* list, the info fields and the encryption sub-record, and divides the
\* timestamp by 1000; the bytes of the parsed entry are the first bytes but
\* for the 8 bytes of the timestamp.
InverseButTime ==
    (call.passes >= 1 /\ \A i \in 1..Len(file_path(call.first)) :
                             file_path(call.first)[i] < 65536) =>
        LET t == call.first.time.timestamp \div (1000 ^ call.passes)
            at == (IF is_encrypted(call.first)
                   THEN Len(XP3FileEncryption_to_bytes(call.first.encryption[1])) ELSE 0)
                  + 4 + 8 + 4 + 8
        IN  /\ call.err = "none"
            /\ call.entry.adlr = call.first.adlr /\ call.entry.segm = call.first.segm
            /\ call.entry.info = call.first.info
            /\ call.entry.encryption = call.first.encryption
            /\ call.entry.time.timestamp = t
            /\ call.stage = "bytes" =>
                  /\ Len(call.bytes) = Len(call.first_bytes)
                  /\ \A i \in 1..Len(call.bytes) :
                        call.bytes[i] = IF i \in (at + 1)..(at + 8) THEN PackQ(t)[i - at]
                                        ELSE call.first_bytes[i]

----------------------------------------------------------------------------
(* SpecReads: a reader opened on an archive of two files, and a sequence of *)
(* reads of its entries; call holds the reader as it was opened, the        *)
(* position of the source and the outcome of every read so far              *)

MaxReads == 2

\* the bytes of the archive that holds files, the encrypted flag of the info
\* chunk negated in the entries whose place is in flip
FlagArchive(files, flip) ==
    Let(SampleLayout(files, HeaderSize), LAMBDA l :
    XP3Signature \o PackQ(HeaderSize + Len(l.data)) \o l.data
    \o XP3FileIndex_to_bytes([i \in 1..Len(files) |->
           IF i \in flip THEN [l.entries[i] EXCEPT !.info.is_encrypted = ~@]
           ELSE l.entries[i]]))

\* the position of the source after XP3File.read of an entry: each pass of the
\* loop seeks to the offset of its segment and reads compressed_size bytes,
\* and the loop ends with the first pass that raises
source_position(entry, buf, cursor) ==
    LET segments == entry.segm.segments
        failing == {i \in 1..Len(segments) : read_segment(segments[i], buf).err # "none"}
        last == IF failing = {} THEN Len(segments)
                ELSE CHOOSE i \in failing : \A j \in failing : i <= j
    IN  IF segments = <<>> THEN cursor
        ELSE segments[last].offset
             + Len(Rd(buf, segments[last].offset, segments[last].compressed_size))

\* the archives: "a" is an encrypted file without a segment or a plain file in
\* one segment, "b" a plain file without a segment or an encrypted file in one
\* segment; the reader has read the index, which ends the archive
InitReads ==
    /\ Idle
    /\ use_numpy \in BOOLEAN
    /\ \E a \in {SampleFile(<<97>>, <<>>, "neko_vol0", 0), SampleFile(<<97>>, <<100, 49>>, None, 1)},
          b \in {SampleFile(<<98>>, <<>>, None, 0), SampleFile(<<98>>, <<100, 49>>, "neko_vol0", 1)},
          flip \in {{}, {1}, {2}} :
          /\ added = <<a, b>>
          /\ reader = XP3Reader(FlagArchive(added, flip), use_numpy)
          /\ call = [fn |-> "reads", flip |-> flip, opened |-> reader,
                     cursor |-> Len(reader.buffer), history |-> <<>>]

\* a read that closes the source when it fails
ReadAgain_closing(path, encryption_type, raw) ==
    /\ call.fn = "reads" /\ reader.state = "open" /\ Len(call.history) < MaxReads
    /\ Let(Reader_read(reader, path, encryption_type, raw), LAMBDA r :
       Let(Lookup(reader.entries, path), LAMBDA e :
           /\ reader' = [reader EXCEPT
                  !.state = IF r.err # "none" THEN "closed" ELSE @,
                  !.last = [op |-> "read", path |-> path, encryption_type |-> encryption_type,
                            raw |-> raw, err |-> r.err, value |-> r.value]]
           /\ call' = [call EXCEPT
                  !.cursor = IF e = <<>> THEN @ ELSE source_position(e[1], reader.buffer, @),
                  !.history = Append(@, [path |-> path, encryption_type |-> encryption_type,
                                         raw |-> raw, err |-> r.err, value |-> r.value,
                                         cursor |-> call.cursor])]))
    /\ UNCHANGED wvars

\* open(path).read(encryption_type, raw) on the open reader, after the reads
\* of call.history
ReadAgain(path, encryption_type, raw) ==
    /\ call.fn = "reads" /\ reader.state = "open" /\ Len(call.history) < MaxReads
    /\ Let(Reader_read(reader, path, encryption_type, raw), LAMBDA r :
       Let(Lookup(reader.entries, path), LAMBDA e :
           /\ reader' = [reader EXCEPT
                  !.last = [op |-> "read", path |-> path, encryption_type |-> encryption_type,
                            raw |-> raw, err |-> r.err, value |-> r.value]]
           /\ call' = [call EXCEPT
                  !.cursor = IF e = <<>> THEN @ ELSE source_position(e[1], reader.buffer, @),
                  !.history = Append(@, [path |-> path, encryption_type |-> encryption_type,
                                         raw |-> raw, err |-> r.err, value |-> r.value,
                                         cursor |-> call.cursor])]))
    /\ UNCHANGED wvars

SpecReads ==
    InitReads /\ [][\E p \in Paths, e \in {None, "neko_vol0"}, raw \in BOOLEAN :
                        ReadAgain(p, e, raw)]_vars

C24_EncryptionIffFlag ==
    /\ \A i \in 1..Len(reader.entries) :
          LET entry == reader.entries[i]
          IN  /\ (entry.encryption # <<>>) <=> entry.info.is_encrypted
              /\ is_encrypted(entry) <=> entry.info.is_encrypted
              /\ entry.encryption # <<>> =>
                    /\ entry.encryption[1].adler32 = entry.adlr.value
                    /\ entry.encryption[1].file_path = added[i].path
    /\ \A i \in 1..Len(file_entries) :
          (file_entries[i].encryption # <<>>) <=> file_entries[i].info.is_encrypted

----------------------------------------------------------------------------
\* C26: after any sequence of add calls, failed ones among them, the writer's
\* known paths and its file entries describe the same files in the same
\* order: as many paths as entries, the i-th path the path of the i-th entry.
C26_PathsMatchEntries ==
    /\ Len(_filenames) = Len(file_entries)
    /\ \A i \in 1..Len(file_entries) : _filenames[i] = file_path(file_entries[i])

====
